---- MODULE Spec2Model ----
(***************************************************************************)
(* Block flattening, page-index assignment and per-page overlay of the     *)
(* PDF viewer (viewer/src/components/pdf/PDFViewer.tsx), and the upload,    *)
(* the selection and the chat pane of the page that holds it                *)
(* (viewer/src/components/chat/ChatPane.tsx).                               *)
(*                                                                         *)
(* A block is a JavaScript object: `keys` is the set of optional           *)
(* properties it owns (page_number, pageIndex, polygon, children); the     *)
(* value of a property the object does not own is a fixed filler and is    *)
(* never read.  Blocks are referred to by identity (1..n): the flat        *)
(* collection and the selection hold references, as in the source.         *)
(***************************************************************************)
EXTENDS Integers, Sequences, FiniteSets, Bags, TLC

VARIABLES
    tree,           \* the block objects of the decoded response, by identity
    top,            \* data.blocks.children: the top-level blocks in order
    input,          \* the block objects as they arrived (history, never written)
    pc,             \* position of the reader.onload callback
    topIdx,         \* position of the for-of loop over data.blocks.children
    nextPageIndex,  \* handleFileUpload's local counter
    stack,          \* the active parseBlock calls, innermost last
    all,            \* allBlocks, the flat list being built
    calledWith,     \* per block: the nextPageIndex parseBlock was called with
    returned,       \* per block: the nextPageIndex parseBlock returned
    blocks,         \* React state: the flat collection
    pdfFile,        \* React state: the data URL of the document, or NoFile
    loading,        \* React state
    selectedBlock,  \* React state: the selected block, or Null
    rendered,       \* the last overlay renderOverlay produced
    run,            \* how many times the assignment has been started
    first,          \* the outcome of the first run
    responseOk,     \* response.ok of the extraction service's reply
    dataKeys,       \* which of data.blocks, data.blocks.children the reply has
    waiting,        \* the uploads started during another that still await a reply
    lastClick,      \* the block of the last rectangle click no close followed
    paneBlock,      \* the block prop of the mounted ChatPane, or Null
    messages,       \* ChatPane state: the conversation shown
    newMessage,     \* ChatPane state: the text in the input box
    isLoading,      \* ChatPane state
    blockConversations, \* the module-level store of conversations by block id
    calls,          \* the bag of callFireworksAI calls in flight; `live` tells
                    \* whether the pane that made the call is still mounted,
                    \* `request` is the history the call was made with
    apiKey          \* whether NEXT_PUBLIC_FIREWORKS_API_KEY is set in the build

\* The state of the chat pane and of the requests it made.
chatVars == <<paneBlock, messages, newMessage, isLoading, blockConversations,
              calls, apiKey>>

vars == <<tree, top, input, pc, topIdx, nextPageIndex, stack, all, calledWith,
          returned, blocks, pdfFile, loading, selectedBlock, rendered, run, first,
          responseOk, dataKeys, waiting, lastClick, chatVars>>

-----------------------------------------------------------------------------
(* Bounds of the explored inputs *)

MaxBlocks == 3

MaxPage == 5

PresetPageIndex == 2

\* The zoom levels the Viewer draws the pages at.
Scales == {1, 2}

Null == 0

\* pdfFile before a document is shown, and the data URL the FileReader gives.
NoFile == "null"

DataUrl == "data:application/pdf;base64"

BlockTypes == {"Page", "Text"}

\* The page_number values the extraction service sends.
PageNumbers == {0, 1, 2, 3, 5}

-----------------------------------------------------------------------------
(* Polygons supplied by the extraction service *)

Polygons ==
    << << <<0, 0>>, <<10, 0>>, <<10, 5>>, <<0, 5>> >>,
       << <<0, 0>>, <<1, 1>> >>,
       << <<2, 1>>, <<6, 3>>, <<4, 7>>, <<1, 4>>, <<3, 2>> >>,
       << >> >>

-----------------------------------------------------------------------------
(* JavaScript object helpers *)

Has(block, key) == key \in block.keys

TypeofNumber(block, key) == Has(block, key)

SortedSeq(S) ==
    CHOOSE s \in [1..Cardinality(S) -> S] :
        \A i, j \in 1..Cardinality(S) : i < j => s[i] < s[j]

Range(s) == {s[i] : i \in 1..Len(s)}

Last(s) == s[Len(s)]

Front(s) == SubSeq(s, 1, Len(s) - 1)

\* The history h with the value v noted for block b.
Record(h, b, v) == [x \in DOMAIN h \cup {b} |-> IF x = b THEN v ELSE h[x]]

-----------------------------------------------------------------------------
(* parseBlock *)

\* parseBlock reading a pageIndex the block already carries as 1-based.
PageIndexAssignedOneBased(block, npi) ==
    IF block.block_type = "Page"
    THEN IF TypeofNumber(block, "page_number")
         THEN block.page_number - 1
         ELSE npi
    ELSE IF ~TypeofNumber(block, "pageIndex")
         THEN 0
         ELSE block.pageIndex - 1

\* The page index parseBlock stores in `block` when called with nextPageIndex.
PageIndexAssigned(block, npi) ==
    IF block.block_type = "Page"
    THEN IF TypeofNumber(block, "page_number")
         THEN block.page_number - 1
         ELSE npi
    ELSE IF ~TypeofNumber(block, "pageIndex")
         THEN 0
         ELSE block.pageIndex

\* parseBlock without the bump of the counter past an explicit page number.
NextPageIndexNoBump(block, npi) ==
    IF block.block_type = "Page"
    THEN IF TypeofNumber(block, "page_number") THEN npi ELSE npi + 1
    ELSE npi

\* parseBlock setting the counter from every explicit page number.
NextPageIndexUnguarded(block, npi) ==
    IF block.block_type = "Page"
    THEN IF TypeofNumber(block, "page_number")
         THEN (block.page_number - 1) + 1
         ELSE npi + 1
    ELSE npi

\* parseBlock comparing with > where the source has >=.
NextPageIndexStrict(block, npi) ==
    IF block.block_type = "Page"
    THEN IF TypeofNumber(block, "page_number")
         THEN IF block.page_number - 1 > npi
              THEN (block.page_number - 1) + 1
              ELSE npi
         ELSE npi + 1
    ELSE npi

\* parseBlock without nextPageIndex++ after an auto-numbered page.
NextPageIndexNoIncrement(block, npi) ==
    IF block.block_type = "Page"
    THEN IF TypeofNumber(block, "page_number")
         THEN IF block.page_number - 1 >= npi
              THEN (block.page_number - 1) + 1
              ELSE npi
         ELSE npi
    ELSE npi

\* The value of nextPageIndex after parseBlock has assigned the block's index.
NextPageIndexAfter(block, npi) ==
    IF block.block_type = "Page"
    THEN IF TypeofNumber(block, "page_number")
         THEN IF block.page_number - 1 >= npi
              THEN (block.page_number - 1) + 1
              ELSE npi
         ELSE npi + 1
    ELSE npi

\* The parent's index given only to a child that has none (child.pageIndex ??=).
InheritedUnlessSet(block, child) ==
    IF Has(child, "pageIndex") THEN child.pageIndex ELSE block.pageIndex

\* child.pageIndex = block.pageIndex, before the recursive call.
InheritedPageIndex(block, child) == block.pageIndex

\* all.unshift(block)
Unshift(list, b) == <<b>> \o list

\* all.push(block)
Push(list, b) == Append(list, b)

\* A loop over the children that stops one short.
ChildrenButLast(block) ==
    IF Has(block, "children") /\ block.children # << >>
    THEN SubSeq(block.children, 1, Len(block.children) - 1)
    ELSE << >>

\* The children the for-of loop of parseBlock goes through.
ChildrenToVisit(block) ==
    IF Has(block, "children") THEN block.children ELSE << >>

\* The assignment that also rewrites page_number to match.
SetPageIndexAndNumber(t, b, v) ==
    [t EXCEPT ![b].pageIndex = v, ![b].page_number = v + 1,
              ![b].keys = @ \cup {"pageIndex", "page_number"}]

\* block.pageIndex = v
SetPageIndex(t, b, v) ==
    [t EXCEPT ![b].pageIndex = v, ![b].keys = @ \cup {"pageIndex"}]

\* The body of parseBlock(b, npi, all) up to the loop over the children.
\* t is the heap at the call.
Enter(t, b, npi) ==
    /\ tree' = SetPageIndex(t, b, PageIndexAssigned(t[b], npi))
    /\ all' = Push(all, b)
    /\ stack' = Append(stack, [block |-> b, i |-> 1,
                               nextPageIndex |-> NextPageIndexAfter(t[b], npi)])
    /\ calledWith' = Record(calledWith, b, npi)

-----------------------------------------------------------------------------
(* Inputs: the decoded response { blocks: { children: [...] } } *)

\* What a block of the response may look like, apart from its place in the
\* forest and its polygon: a Page with or without page_number, a non-Page
\* block with or without a pageIndex of its own.
BlockShapes ==
    {[block_type |-> "Page", keys |-> {"page_number"}, page_number |-> p,
      pageIndex |-> 0] : p \in PageNumbers}
    \cup {[block_type |-> "Page", keys |-> {}, page_number |-> 0, pageIndex |-> 0]}
    \cup {[block_type |-> ty, keys |-> {}, page_number |-> 0, pageIndex |-> 0] :
            ty \in BlockTypes \ {"Page"}}
    \cup {[block_type |-> ty, keys |-> {"pageIndex"}, page_number |-> 0,
           pageIndex |-> PresetPageIndex] : ty \in BlockTypes \ {"Page"}}

Children(n, par, p) == SortedSeq({i \in 1..n : par[i] = p})

\* Block b of a forest of n blocks with parents par and shapes shp.  The
\* polygons (a rectangle, two points, a five-point outline, none) and the
\* leaves without a children property rotate with b and n.
MakeBlock(n, par, shp, b) ==
    LET kids == Children(n, par, b)
        poly == Polygons[((b + n) % 4) + 1]
        ownsChildren == kids # << >> \/ (b + n) % 2 = 0
    IN  [ id |-> b,
          block_type |-> shp[b].block_type,
          keys |-> shp[b].keys
                   \cup (IF poly # << >> THEN {"polygon"} ELSE {})
                   \cup (IF ownsChildren THEN {"children"} ELSE {}),
          page_number |-> shp[b].page_number,
          pageIndex |-> shp[b].pageIndex,
          polygon |-> poly,
          children |-> kids ]

NoRender == [scale |-> 0, pages |-> << >>]

NoFirst == [pageIndex |-> << >>, nextPageIndex |-> 0]

\* The shapes a decoded reply can have: {blocks: {children: [...]}},
\* {blocks: {}} and an object without blocks.
FullData == {"blocks", "blocks.children"}

DataShapes == {FullData, {"blocks"}, {}}

\* No text: the input box when empty.
NoText == << >>

\* The component as constructed, before a file is chosen: the reply the
\* extraction service will give is the forest of n blocks with parents par
\* and shapes shp.
Constructed(n, par, shp) ==
    /\ tree = [b \in 1..n |-> MakeBlock(n, par, shp, b)]
    /\ top = Children(n, par, 0)
    /\ input = tree
    /\ topIdx = 1
    /\ nextPageIndex = 0
    /\ stack = << >>
    /\ all = << >>
    /\ calledWith = << >>
    /\ returned = << >>
    /\ blocks = << >>
    /\ pdfFile = NoFile
    /\ loading = FALSE
    /\ selectedBlock = Null
    /\ rendered = NoRender
    /\ run = 0
    /\ first = NoFirst
    /\ waiting = 0
    /\ lastClick = Null
    /\ paneBlock = Null
    /\ messages = << >>
    /\ newMessage = NoText
    /\ isLoading = FALSE
    /\ blockConversations = << >>
    /\ calls = EmptyBag

\* A file has been chosen and the reply of the extraction service is awaited.
Init ==
    \E n \in 0..MaxBlocks :
    \E par \in [1..n -> 0..(n - 1)] :
    \E shp \in [1..n -> BlockShapes] :
    \E keys \in DataShapes :
        /\ \A i \in 1..n : par[i] < i
        /\ n > 0 => keys = FullData
        /\ Constructed(n, par, shp)
        /\ pc = "fetch"
        /\ responseOk = TRUE
        /\ dataKeys = keys
        /\ apiKey = TRUE

-----------------------------------------------------------------------------
(* reader.onload: the flattening of the decoded response *)

\* A reader.onload callback awaits its reply: the one pc follows, or one of
\* an upload started during another.
ReplyAwaited == pc = "fetch" \/ (pc \in {"done", "failed"} /\ waiting > 0)

\* The uploads that still await a reply once one of them has got its own.
WaitingAfterReply == IF pc = "fetch" THEN waiting ELSE waiting - 1

\* The response has been decoded into fresh block objects:
\* let allBlocks = []; let nextPageIndex = 0.
BeginFlatten ==
    /\ ReplyAwaited
    /\ pc' = "flatten"
    /\ waiting' = WaitingAfterReply
    /\ tree' = input
    /\ all' = << >>
    /\ nextPageIndex' = 0
    /\ topIdx' = 1
    /\ run' = run + 1
    /\ UNCHANGED <<top, input, stack, calledWith, returned, blocks,
                   pdfFile, loading, selectedBlock, rendered, first>>
    /\ UNCHANGED <<responseOk, dataKeys, lastClick, chatVars>>

\* if (data.blocks && data.blocks.children)
HasBlockStructure == FullData \subseteq dataKeys

\* The loop over the top-level blocks left after its first block.
LoopDoneEarly == ~HasBlockStructure \/ topIdx > 1

\* The loop that ends only for a reply that has the block structure.
LoopDoneWithStructure == HasBlockStructure /\ topIdx > Len(top)

\* The top-level loop has ended, or the reply had nothing to loop over.
LoopDone == ~HasBlockStructure \/ topIdx > Len(top)

\* for (const topBlock of data.blocks.children) parseBlock(topBlock, ...)
TopCall ==
    /\ pc = "flatten"
    /\ stack = << >>
    /\ HasBlockStructure
    /\ topIdx <= Len(top)
    /\ Enter(tree, top[topIdx], nextPageIndex)
    /\ UNCHANGED <<top, input, pc, topIdx, nextPageIndex, returned, blocks,
                   pdfFile, loading, selectedBlock, rendered, run, first>>
    /\ UNCHANGED <<waiting, responseOk, dataKeys, lastClick, chatVars>>

\* for (const child of block.children) { child.pageIndex = block.pageIndex;
\*                                        parseBlock(child, nextPageIndex, all) }
ChildCall ==
    /\ pc = "flatten"
    /\ stack # << >>
    /\ LET f == Last(stack)
           kids == ChildrenToVisit(tree[f.block])
       IN  /\ f.i <= Len(kids)
           /\ LET c == kids[f.i]
                  t == SetPageIndex(tree, c, InheritedPageIndex(tree[f.block], tree[c]))
              IN  Enter(t, c, f.nextPageIndex)
    /\ UNCHANGED <<top, input, pc, topIdx, nextPageIndex, returned, blocks,
                   pdfFile, loading, selectedBlock, rendered, run, first>>
    /\ UNCHANGED <<waiting, responseOk, dataKeys, lastClick, chatVars>>

\* return nextPageIndex, assigned to the caller's nextPageIndex.
Return ==
    /\ pc = "flatten"
    /\ stack # << >>
    /\ LET f == Last(stack)
           rest == Front(stack)
       IN  /\ f.i > Len(ChildrenToVisit(tree[f.block]))
           /\ returned' = Record(returned, f.block, f.nextPageIndex)
           /\ IF rest = << >>
              THEN /\ nextPageIndex' = f.nextPageIndex
                   /\ topIdx' = topIdx + 1
                   /\ stack' = rest
              ELSE /\ stack' = [rest EXCEPT ![Len(rest)] =
                                  [@ EXCEPT !.nextPageIndex = f.nextPageIndex,
                                            !.i = @ + 1]]
                   /\ UNCHANGED <<nextPageIndex, topIdx>>
    /\ UNCHANGED <<tree, top, input, pc, all, calledWith, blocks, pdfFile,
                   loading, selectedBlock, rendered, run, first>>
    /\ UNCHANGED <<waiting, responseOk, dataKeys, lastClick, chatVars>>

\* setBlocks(allBlocks); setPdfFile(base64)
Finish ==
    /\ pc = "flatten"
    /\ stack = << >>
    /\ LoopDone
    /\ blocks' = all
    /\ pdfFile' = DataUrl
    /\ pc' = "done"
    /\ UNCHANGED <<tree, top, input, topIdx, nextPageIndex, stack, all,
                   calledWith, returned, loading, selectedBlock, rendered,
                   run, first>>
    /\ UNCHANGED <<waiting, responseOk, dataKeys, lastClick, chatVars>>

-----------------------------------------------------------------------------
(* renderOverlay *)

MinOf(S) == CHOOSE x \in S : \A y \in S : x <= y

MaxOf(S) == CHOOSE x \in S : \A y \in S : x >= y

\* The filter without the test on block_type.
OverlayFilterAnyType(block, pageIndex) ==
    (IF Has(block, "pageIndex") THEN block.pageIndex ELSE 0) = pageIndex

\* The .filter of renderOverlay: the non-Page blocks of the page drawn.
OverlayFilter(block, pageIndex) ==
    /\ block.block_type # "Page"
    /\ (IF Has(block, "pageIndex") THEN block.pageIndex ELSE 0) = pageIndex

\* if (!b.polygon || b.polygon.length < 4) return null
NoRectangle(block) == ~Has(block, "polygon") \/ Len(block.polygon) < 4

\* The rectangle with the far corner taken for the extent (no "- x", "- y").
RectangleFarCorner(block, scale, selected) ==
    LET xs == {block.polygon[i][1] : i \in 1..Len(block.polygon)}
        ys == {block.polygon[i][2] : i \in 1..Len(block.polygon)}
        isSelected == selected # Null /\ tree[selected].id = block.id
    IN  [ key |-> block.id,
          block |-> block.id,
          left |-> MinOf(xs) * scale,
          top |-> MinOf(ys) * scale,
          width |-> MaxOf(xs) * scale,
          height |-> MaxOf(ys) * scale,
          zIndex |-> IF isSelected THEN 2 ELSE 1 ]

\* The rectangle that is marked whenever anything is selected.
RectangleMarkedWithAny(block, scale, selected) ==
    LET xs == {block.polygon[i][1] : i \in 1..Len(block.polygon)}
        ys == {block.polygon[i][2] : i \in 1..Len(block.polygon)}
    IN  [ key |-> block.id,
          block |-> block.id,
          left |-> MinOf(xs) * scale,
          top |-> MinOf(ys) * scale,
          width |-> (MaxOf(xs) - MinOf(xs)) * scale,
          height |-> (MaxOf(ys) - MinOf(ys)) * scale,
          zIndex |-> IF selected # Null THEN 2 ELSE 1 ]

\* The element .map returns for a block that has a usable polygon.
Rectangle(block, scale, selected) ==
    LET xs == {block.polygon[i][1] : i \in 1..Len(block.polygon)}
        ys == {block.polygon[i][2] : i \in 1..Len(block.polygon)}
        x == MinOf(xs)
        y == MinOf(ys)
        w == MaxOf(xs) - x
        h == MaxOf(ys) - y
        isSelected == selected # Null /\ tree[selected].id = block.id
    IN  [ key |-> block.id,
          block |-> block.id,
          left |-> x * scale,
          top |-> y * scale,
          width |-> w * scale,
          height |-> h * scale,
          zIndex |-> IF isSelected THEN 2 ELSE 1 ]

\* The element .map returns for a block it skips.
NullElement == [key |-> Null]

IsRectangle(item) == item.key # Null

\* The children of the overlay <div> for one page at one scale, drawn with
\* the block `selected` as the selection.
OverlayOf(selected, pageIndex, scale) ==
    LET shown == SelectSeq(blocks, LAMBDA b : OverlayFilter(tree[b], pageIndex))
    IN  [i \in 1..Len(shown) |->
            IF NoRectangle(tree[shown[i]])
            THEN NullElement
            ELSE Rectangle(tree[shown[i]], scale, selected)]

RenderOverlay(pageIndex, scale) == OverlayOf(selectedBlock, pageIndex, scale)

\* All pages of the document drawn again after setSelectedBlock(selected):
\* renderOverlay is rebuilt when selectedBlock changes.
Redraw(selected, scale) ==
    [scale |-> scale,
     pages |-> [p \in 0..MaxPage |-> OverlayOf(selected, p, scale)]]

\* A drawing of the pages that also drops the selection.
RenderDeselecting ==
    /\ pdfFile # NoFile
    /\ pc = "done"
    /\ \E s \in Scales : rendered' = Redraw(Null, s)
    /\ selectedBlock' = Null
    /\ UNCHANGED <<tree, top, input, pc, topIdx, nextPageIndex, stack, all,
                   calledWith, returned, blocks, pdfFile, loading, run, first>>
    /\ UNCHANGED <<waiting, responseOk, dataKeys, lastClick, chatVars>>

\* The Viewer draws its pages at scale s: renderPage calls renderOverlay(props)
\* for each of them.  The flattening is synchronous, so no page is drawn
\* while it runs.
Render ==
    /\ pdfFile # NoFile
    /\ pc = "done"
    /\ \E s \in Scales :
          rendered' = [scale |-> s,
                       pages |-> [p \in 0..MaxPage |-> RenderOverlay(p, s)]]
    /\ UNCHANGED <<tree, top, input, pc, topIdx, nextPageIndex, stack, all,
                   calledWith, returned, blocks, pdfFile, loading,
                   selectedBlock, run, first>>
    /\ UNCHANGED <<waiting, responseOk, dataKeys, lastClick, chatVars>>

-----------------------------------------------------------------------------
(* The assignment run a second time over the blocks the first run annotated *)

Rerun ==
    /\ pc = "done"
    /\ run = 1
    /\ first' = [pageIndex |-> [b \in DOMAIN tree |-> tree[b].pageIndex],
                 nextPageIndex |-> nextPageIndex]
    /\ pc' = "flatten"
    /\ all' = << >>
    /\ nextPageIndex' = 0
    /\ topIdx' = 1
    /\ run' = run + 1
    /\ UNCHANGED <<tree, top, input, stack, calledWith, returned, blocks,
                   pdfFile, loading, selectedBlock, rendered>>
    /\ UNCHANGED <<waiting, responseOk, dataKeys, lastClick, chatVars>>

-----------------------------------------------------------------------------
Next ==
    \/ BeginFlatten
    \/ TopCall
    \/ ChildCall
    \/ Return
    \/ Finish
    \/ Render

Spec == Init /\ [][Next]_vars

NextTwice ==
    \/ BeginFlatten
    \/ TopCall
    \/ ChildCall
    \/ Return
    \/ Finish
    \/ Rerun

SpecTwice == Init /\ [][NextTwice]_vars

-----------------------------------------------------------------------------
(* The page as the user drives it: upload outcomes, selection, chat pane *)

MaxMessages == 3

MaxWaiting == 1

MaxCalls == 2

UpperCaseLetters == "ABCDEFGHIJKLMNOPQRSTUVWXYZ"

LowerCaseLetters == "abcdefghijklmnopqrstuvwxyz"

\* The lower-case form of one character; only the letters A-Z have one that
\* differs.
LowerChar(c) ==
    LET at == {i \in 1..Len(UpperCaseLetters) : SubSeq(UpperCaseLetters, i, i) = c}
    IN  IF at = {} THEN c
        ELSE LET i == CHOOSE i \in at : TRUE IN SubSeq(LowerCaseLetters, i, i)

RECURSIVE ToLowerCase(_)
\* String.prototype.toLowerCase, character by character.
ToLowerCase(str) ==
    IF Len(str) = 0 THEN str
    ELSE LowerChar(SubSeq(str, 1, 1)) \o ToLowerCase(Tail(str))

\* textBlockTypes.includes(selectedBlock.block_type.toLowerCase())
IsTextBlock(b) == ToLowerCase(tree[b].block_type) \in {"text"}

\* {selectedBlock && isTextBlock && <ChatPane block={selectedBlock} ... />}
ShowsPane(selected) == selected # Null /\ IsTextBlock(selected)

\* Texts are sequences of words; " " stands for a run of white space.  The
\* text typed is the text of the preset button with white space around it.
TypedTexts == {NoText, <<" ">>, <<" ", "Summarize", " ", "this", " ">>}

PresetTexts == {<<"Summarize", " ", "this">>}

AiReply == <<"(reply)">>

\* String.prototype.trim
Trim(text) ==
    LET solid == {i \in 1..Len(text) : text[i] # " "}
    IN  IF solid = {} THEN NoText ELSE SubSeq(text, MinOf(solid), MaxOf(solid))

\* A message of a conversation.  `about` is the block whose html the system
\* message quotes; for the other roles it notes the block the pane showed
\* when the message was sent.
Message(role, content, about) ==
    [role |-> role, content |-> content, about |-> about]

\* The useState initializer of messages, and what it leaves in the store.
InitialMessages(block) ==
    IF tree[block].id \in DOMAIN blockConversations
    THEN blockConversations[tree[block].id]
    ELSE << Message("system", NoText, block) >>

\* useEffect(() => { blockConversations[block.id] = messages },
\*           [messages, block.id]), run after a render with block and msgs.
Stored(block, msgs) == Record(blockConversations, tree[block].id, msgs)

\* The chat pane after the page is rendered with `selected` as the selection.
\* A pane that stays on screen is the same component: its state is kept and
\* only its block prop changes.  A pane that appears is mounted afresh; one
\* that disappears loses its state.  Nothing cancels callFireworksAI: the
\* calls of the pane that disappears stay in flight, made by a component that
\* is mounted no longer.  Their outcome reaches no state, so of such a call
\* only the block it was made for is followed from here on; calls that are
\* alike from then on are still counted one by one.
Orphaned(c) == [c EXCEPT !.live = FALSE, !.request = << >>]

Pane(selected) ==
    IF ShowsPane(selected)
    THEN IF paneBlock # Null
         THEN /\ paneBlock' = selected
              /\ blockConversations' = Stored(selected, messages)
              /\ UNCHANGED <<messages, newMessage, isLoading, calls>>
         ELSE /\ paneBlock' = selected
              /\ messages' = InitialMessages(selected)
              /\ blockConversations' = Stored(selected, InitialMessages(selected))
              /\ newMessage' = NoText
              /\ isLoading' = FALSE
              /\ UNCHANGED calls
    ELSE /\ paneBlock' = Null
         /\ messages' = << >>
         /\ newMessage' = NoText
         /\ isLoading' = FALSE
         /\ calls' = BagOfAll(Orphaned, calls)
         /\ UNCHANGED blockConversations

\* The upload button is on screen while no document is shown.  The handler
\* runs setLoading(true), registers reader.onload, starts the read and runs
\* setLoading(false) before it returns.
HandleFileUpload ==
    /\ pc \in {"idle", "failed"}
    /\ pdfFile = NoFile
    /\ ~loading
    /\ pc' = "fetch"
    /\ loading' = FALSE
    /\ UNCHANGED <<tree, top, input, topIdx, nextPageIndex, stack, all,
                   calledWith, returned, blocks, pdfFile, selectedBlock,
                   rendered, run, first>>
    /\ UNCHANGED <<waiting, responseOk, dataKeys, lastClick, chatVars>>

\* await fetch(...) rejects (network error) or await response.json() rejects
\* (a body that is not JSON): reader.onload ends there.
Rejected ==
    /\ ReplyAwaited
    /\ pc' = IF pc = "fetch" THEN "failed" ELSE pc
    /\ waiting' = WaitingAfterReply
    /\ UNCHANGED <<tree, top, input, topIdx, nextPageIndex, stack, all,
                   calledWith, returned, blocks, pdfFile, loading,
                   selectedBlock, rendered, run, first>>
    /\ UNCHANGED <<responseOk, dataKeys, lastClick, chatVars>>

\* A second file is chosen while a reply is awaited: the button is enabled,
\* because the handler of the first upload has run setLoading(false).
HandleFileUploadAgain ==
    /\ pc = "fetch"
    /\ pdfFile = NoFile
    /\ ~loading
    /\ waiting < MaxWaiting
    /\ waiting' = waiting + 1
    /\ loading' = FALSE
    /\ UNCHANGED <<tree, top, input, pc, topIdx, nextPageIndex, stack, all,
                   calledWith, returned, blocks, pdfFile, selectedBlock,
                   rendered, run, first>>
    /\ UNCHANGED <<responseOk, dataKeys, lastClick, chatVars>>

\* A click that selects the block unless it is the selection already.
SelectedAfterClickToggle(selected, block) ==
    IF selected = block THEN Null ELSE block

\* setSelectedBlock(block)
SelectedAfterClick(selected, block) == block

\* onClick={() => handleBlockClick(b)} of a rectangle on screen.
HandleBlockClick(block) ==
    /\ selectedBlock' = SelectedAfterClick(selectedBlock, block)
    /\ lastClick' = block
    /\ Pane(selectedBlock')
    /\ rendered' = Redraw(selectedBlock', rendered.scale)
    /\ UNCHANGED <<tree, top, input, pc, topIdx, nextPageIndex, stack, all,
                   calledWith, returned, blocks, pdfFile, loading, run, first>>
    /\ UNCHANGED <<waiting, responseOk, dataKeys, apiKey>>

Click ==
    \E p \in DOMAIN rendered.pages :
    \E i \in 1..Len(rendered.pages[p]) :
        /\ IsRectangle(rendered.pages[p][i])
        /\ HandleBlockClick(rendered.pages[p][i].block)

\* The pane's close button: onClose={() => setSelectedBlock(null)}
ClosePane ==
    /\ paneBlock # Null
    /\ selectedBlock' = Null
    /\ lastClick' = Null
    /\ Pane(Null)
    /\ rendered' = Redraw(Null, rendered.scale)
    /\ UNCHANGED <<tree, top, input, pc, topIdx, nextPageIndex, stack, all,
                   calledWith, returned, blocks, pdfFile, loading, run, first>>
    /\ UNCHANGED <<waiting, responseOk, dataKeys, apiKey>>

\* onChange={(e) => setNewMessage(e.target.value)}; the textarea is disabled
\* while isLoading.
Type ==
    /\ paneBlock # Null
    /\ ~isLoading
    /\ \E text \in TypedTexts :
          /\ text # newMessage
          /\ newMessage' = text
    /\ UNCHANGED <<tree, top, input, pc, topIdx, nextPageIndex, stack, all,
                   calledWith, returned, blocks, pdfFile, loading,
                   selectedBlock, rendered, run, first>>
    /\ UNCHANGED <<waiting, responseOk, dataKeys, lastClick, paneBlock, messages,
                   isLoading, blockConversations, calls, apiKey>>

\* prev.filter((_, i) => i !== prev.length - 1)
RemoveLast(prev) == SubSeq(prev, 1, Len(prev) - 1)

\* handleSend up to its first await.  Without an API key the throw is caught
\* in the same turn: the user message is added and removed, the input gets
\* the trimmed text, isLoading ends false.  At most MaxCalls calls are
\* followed at a time, those of panes closed since included.
HandleSend(messageText) ==
    LET messageContent == Trim(messageText)
        userMsg == Message("user", messageContent, paneBlock)
        sent == Append(messages, userMsg)
    IN  /\ paneBlock # Null
        /\ ~(messageContent = NoText \/ isLoading)
        /\ Len(messages) < MaxMessages
        /\ IF ~apiKey
           THEN /\ messages' = RemoveLast(sent)
                /\ newMessage' = messageContent
                /\ isLoading' = FALSE
                /\ blockConversations' = Stored(paneBlock, RemoveLast(sent))
                /\ UNCHANGED calls
           ELSE /\ BagCardinality(calls) < MaxCalls
                /\ messages' = sent
                /\ newMessage' = NoText
                /\ isLoading' = TRUE
                /\ blockConversations' = Stored(paneBlock, sent)
                /\ calls' = calls (+) SetToBag({[live |-> TRUE,
                                                  content |-> messageContent,
                                                  about |-> paneBlock,
                                                  request |-> sent]})
        /\ UNCHANGED <<tree, top, input, pc, topIdx, nextPageIndex, stack, all,
                       calledWith, returned, blocks, pdfFile, loading,
                       selectedBlock, rendered, run, first>>
        /\ UNCHANGED <<waiting, responseOk, dataKeys, lastClick, paneBlock, apiKey>>

\* The Send button or Enter (the text of the input box), or a preset button.
Send == \E text \in {newMessage} \cup PresetTexts : HandleSend(text)

\* callFireworksAI resolves: the reply is appended and isLoading ends.  The
\* histories followed have at most MaxMessages messages.  The setters of a
\* pane that is mounted no longer change nothing: no state, and no effect
\* that would store the history.
Resolved ==
    \E c \in BagToSet(calls) :
        /\ c.live => Len(messages) < MaxMessages
        /\ calls' = calls (-) SetToBag({c})
        /\ IF c.live
           THEN LET aiMsg == Message("assistant", AiReply, c.about)
                IN  /\ messages' = Append(messages, aiMsg)
                    /\ isLoading' = FALSE
                    /\ blockConversations' =
                          Stored(paneBlock, Append(messages, aiMsg))
                    /\ UNCHANGED newMessage
           ELSE UNCHANGED <<messages, newMessage, isLoading,
                            blockConversations>>
        /\ UNCHANGED <<tree, top, input, pc, topIdx, nextPageIndex, stack, all,
                       calledWith, returned, blocks, pdfFile, loading,
                       selectedBlock, rendered, run, first>>
        /\ UNCHANGED <<waiting, responseOk, dataKeys, lastClick, paneBlock, apiKey>>

\* callFireworksAI throws (fetch fails, or the reply is not ok): the catch
\* removes the last message, restores the input, and isLoading ends.  In a
\* pane that is mounted no longer the three setters change nothing, and the
\* store keeps the history with the user message.
Failed ==
    \E c \in BagToSet(calls) :
        /\ calls' = calls (-) SetToBag({c})
        /\ IF c.live
           THEN /\ messages' = RemoveLast(messages)
                /\ newMessage' = c.content
                /\ isLoading' = FALSE
                /\ blockConversations' = Stored(paneBlock, RemoveLast(messages))
           ELSE UNCHANGED <<messages, newMessage, isLoading,
                            blockConversations>>
        /\ UNCHANGED <<tree, top, input, pc, topIdx, nextPageIndex, stack, all,
                       calledWith, returned, blocks, pdfFile, loading,
                       selectedBlock, rendered, run, first>>
        /\ UNCHANGED <<waiting, responseOk, dataKeys, lastClick, paneBlock, apiKey>>

\* The documents the page is driven with: pages numbered by the counter,
\* each followed by the text and table blocks it contains, or text and table
\* blocks without any page.
AppShapes ==
    {[block_type |-> ty, keys |-> {}, page_number |-> 0, pageIndex |-> 0] :
        ty \in {"Page", "Text", "Table"}}

\* Every block that is not a page is a child of the page before it, if any.
UnderPages(n, shp) ==
    [i \in 1..n |->
        LET pages == {j \in 1..(i - 1) : shp[j].block_type = "Page"}
        IN  IF shp[i].block_type = "Page" \/ pages = {} THEN 0 ELSE MaxOf(pages)]

\* The page before a file is chosen.  The reply to come is a document, an
\* object without block structure, or an error reply without it.
InitApp ==
    \E n \in 0..MaxBlocks :
    \E shp \in [1..n -> AppShapes] :
    \E keys \in DataShapes :
    \E ok, key \in BOOLEAN :
        /\ n > 0 => keys = FullData /\ ok
        /\ \A i \in 2..n : shp[i].block_type = "Page" => shp[1].block_type = "Page"
        /\ ~ok => keys = {}
        /\ Constructed(n, UnderPages(n, shp), shp)
        /\ pc = "idle"
        /\ responseOk = ok
        /\ dataKeys = keys
        /\ apiKey = key

NextApp ==
    \/ HandleFileUpload
    \/ Rejected
    \/ BeginFlatten
    \/ TopCall
    \/ ChildCall
    \/ Return
    \/ Finish
    \/ Render
    \/ Click
    \/ ClosePane
    \/ Type
    \/ Send
    \/ Resolved
    \/ Failed

SpecApp == InitApp /\ [][NextApp]_vars

\* The page driven with the documents that have at most one text block, and
\* so at most one conversation.
InitSelect ==
    /\ InitApp
    /\ \A a, b \in DOMAIN tree : IsTextBlock(a) /\ IsTextBlock(b) => a = b

SpecSelect == InitSelect /\ [][NextApp]_vars

\* The uploads alone, a second one started while the first awaits its reply.
NextUpload ==
    \/ HandleFileUpload
    \/ HandleFileUploadAgain
    \/ Rejected
    \/ BeginFlatten
    \/ TopCall
    \/ ChildCall
    \/ Return
    \/ Finish

SpecUpload == InitApp /\ [][NextUpload]_vars

-----------------------------------------------------------------------------
(* The shape of the forest, read from the blocks as they arrived *)

Blocks == DOMAIN input

IsPage(b) == input[b].block_type = "Page"

HasExplicitNumber(b) == IsPage(b) /\ TypeofNumber(input[b], "page_number")

IsAutoPage(b) == IsPage(b) /\ ~TypeofNumber(input[b], "page_number")

Parent(b) ==
    IF \E p \in Blocks : b \in Range(input[p].children)
    THEN CHOOSE p \in Blocks : b \in Range(input[p].children)
    ELSE Null

RECURSIVE NearestPage(_)
\* The nearest proper ancestor of type "Page", or Null.
NearestPage(b) ==
    IF Parent(b) = Null THEN Null
    ELSE IF IsPage(Parent(b)) THEN Parent(b)
    ELSE NearestPage(Parent(b))

RECURSIVE TopAncestor(_)
\* The top-level block whose subtree holds b.
TopAncestor(b) == IF Parent(b) = Null THEN b ELSE TopAncestor(Parent(b))

RECURSIVE Descendants(_)
Descendants(b) ==
    LET kids == Range(input[b].children)
    IN  kids \cup UNION {Descendants(c) : c \in kids}

RECURSIVE CountBlocks(_)
\* The number of blocks of a list of sibling subtrees.
CountBlocks(list) ==
    IF list = << >> THEN 0
    ELSE 1 + CountBlocks(input[Head(list)].children) + CountBlocks(Tail(list))

Position(b) == CHOOSE i \in 1..Len(blocks) : blocks[i] = b

\* The positions of the Page blocks in the list built so far.
PagePositions == {i \in 1..Len(all) : IsPage(all[i])}

-----------------------------------------------------------------------------
(* Properties *)

\* C1 (as stated): after flattening, every non-Page block has the pageIndex
\* of its nearest Page ancestor, or 0 if it has no Page ancestor.
InheritanceOrZero ==
    pc = "done" =>
        \A b \in Blocks :
            ~IsPage(b) =>
                /\ TypeofNumber(tree[b], "pageIndex")
                /\ tree[b].pageIndex =
                     IF NearestPage(b) = Null
                     THEN 0
                     ELSE tree[NearestPage(b)].pageIndex

\* C1 (amended): after flattening, every non-Page block has the pageIndex of
\* its nearest Page ancestor at any depth; a block without Page ancestor has
\* the pageIndex its top-level ancestor arrived with, or 0 if that block
\* arrived without one.
InheritanceOrOwn ==
    pc = "done" =>
        \A b \in Blocks :
            ~IsPage(b) =>
                /\ TypeofNumber(tree[b], "pageIndex")
                /\ tree[b].pageIndex =
                     IF NearestPage(b) # Null
                     THEN tree[NearestPage(b)].pageIndex
                     ELSE IF TypeofNumber(input[TopAncestor(b)], "pageIndex")
                          THEN input[TopAncestor(b)].pageIndex
                          ELSE 0

\* A flattened forest with a top-level non-Page block that arrived with a
\* pageIndex and a non-Page block under a Page that is itself nested.
InheritanceWitness ==
    /\ pc = "done"
    /\ \E c \in Blocks :
          /\ ~IsPage(c) /\ Parent(c) = Null
          /\ TypeofNumber(input[c], "pageIndex")
    /\ \E b \in Blocks :
          /\ ~IsPage(b) /\ NearestPage(b) # Null
          /\ Parent(NearestPage(b)) # Null
          /\ tree[b].pageIndex # PresetPageIndex

\* C2 (as stated): the pageIndex values of the Page blocks, in traversal
\* order, are non-decreasing.
PageIndexMonotonic ==
    \A i, j \in PagePositions :
        i < j => tree[all[i]].pageIndex <= tree[all[j]].pageIndex

\* C2 (amended): a Page block gets a lower pageIndex than an earlier Page
\* block only if it carries an explicit page_number that is not above the
\* counter at its visit; otherwise the sequence does not decrease.
PageIndexMonotonicButExplicit ==
    \A i, j \in PagePositions :
        (i < j /\ tree[all[j]].pageIndex < tree[all[i]].pageIndex) =>
            /\ HasExplicitNumber(all[j])
            /\ input[all[j]].page_number <= calledWith[all[j]]

\* An out-of-order explicit number after an auto-numbered page that follows
\* an explicit one.
PageIndexMonotonicWitness ==
    /\ pc = "done"
    /\ \E i, j, k \in PagePositions :
          /\ i < j /\ j < k
          /\ HasExplicitNumber(all[i]) /\ IsAutoPage(all[j])
          /\ HasExplicitNumber(all[k])
          /\ tree[all[i]].pageIndex < tree[all[j]].pageIndex
          /\ tree[all[k]].pageIndex < tree[all[i]].pageIndex

\* C3: the flat collection holds every block of the forest exactly once; its
\* length is the recursive block count of the input.
Completeness ==
    pc = "done" =>
        /\ Len(blocks) = CountBlocks(top)
        /\ \A b \in Blocks :
              Cardinality({i \in 1..Len(blocks) : blocks[i] = b}) = 1

\* A flattened forest three levels deep below a non-Page block.
CompletenessWitness ==
    /\ pc = "done"
    /\ \E b \in Blocks :
          /\ Parent(b) # Null /\ Parent(Parent(b)) # Null
          /\ ~IsPage(Parent(Parent(b)))
    /\ Len(blocks) = Cardinality(Blocks)

\* C4: every block of the final flat collection has a defined pageIndex >= 0.
PageIndexNonNegative ==
    pc = "done" =>
        \A i \in 1..Len(blocks) :
            /\ TypeofNumber(tree[blocks[i]], "pageIndex")
            /\ tree[blocks[i]].pageIndex >= 0

\* C5: a second run over the annotated forest gives every block the
\* pageIndex of the first run, and ends with the same nextPageIndex.
Idempotence ==
    (run = 2 /\ pc = "done") =>
        /\ \A b \in Blocks : tree[b].pageIndex = first.pageIndex[b]
        /\ nextPageIndex = first.nextPageIndex

\* A second run completed over auto-numbered and explicit pages and a
\* top-level non-Page block with a child.
IdempotenceWitness ==
    /\ run = 2 /\ pc = "done"
    /\ \E a, e, t \in Blocks :
          /\ IsAutoPage(a) /\ tree[a].pageIndex > 0
          /\ HasExplicitNumber(e)
          /\ ~IsPage(t) /\ Parent(t) = Null

\* The counter of the innermost running call, or of the top-level loop.
Counter ==
    IF stack = << >> THEN nextPageIndex ELSE Last(stack).nextPageIndex

\* The innermost call has assigned its block's index and has not yet had a
\* child return.
JustAssigned == stack # << >> /\ Last(stack).i = 1

\* C6: nextPageIndex never decreases: not from one step of the traversal to
\* the next, in no active call and not in the top-level loop, and parseBlock
\* returns at least the value it was called with.
CounterNeverDecreases ==
    [][pc = "flatten" =>
          /\ Counter' >= Counter
          /\ nextPageIndex' >= nextPageIndex
          /\ \A d \in 1..Len(stack) :
                d <= Len(stack') =>
                    stack'[d].nextPageIndex >= stack[d].nextPageIndex
          /\ \A b \in DOMAIN returned' : returned'[b] >= calledWith'[b]
      ]_vars

\* A traversal that has met an explicit page number below the counter inside
\* a subtree and has returned an advanced counter to the top-level loop.
CounterNeverDecreasesWitness ==
    /\ pc = "done"
    /\ nextPageIndex > 1
    /\ \E b \in Blocks :
          /\ HasExplicitNumber(b) /\ Parent(b) # Null
          /\ input[b].page_number < calledWith[b]
    /\ \E b \in Blocks : returned[b] > calledWith[b] + 1

\* C7: a Page block with explicit page_number n gets pageIndex n - 1 whatever
\* the counter is; the counter becomes n when n - 1 >= nextPageIndex and is
\* left as it was otherwise.
ExplicitNumbering ==
    /\ \A i \in 1..Len(all) :
          HasExplicitNumber(all[i]) =>
              tree[all[i]].pageIndex = input[all[i]].page_number - 1
    /\ (JustAssigned /\ HasExplicitNumber(Last(stack).block)) =>
          LET b == Last(stack).block
              n == input[b].page_number
          IN  Last(stack).nextPageIndex =
                  IF n - 1 >= calledWith[b] THEN n ELSE calledWith[b]

\* Three top-level childless Page blocks numbered 1, 3, 2 end with the
\* indices 0, 2, 1 and the counter 3.
ExplicitNumberingWitness ==
    /\ pc = "done"
    /\ blocks = <<1, 2, 3>> /\ top = <<1, 2, 3>>
    /\ \A b \in Blocks : HasExplicitNumber(b)
    /\ input[1].page_number = 1 /\ input[2].page_number = 3
    /\ input[3].page_number = 2
    /\ tree[1].pageIndex = 0 /\ tree[2].pageIndex = 2 /\ tree[3].pageIndex = 1
    /\ nextPageIndex = 3

\* C8: a Page block without page_number gets the current counter as
\* pageIndex and the counter goes up by one; its pageIndex is greater than
\* that of every Page block visited before it.
AutoNumbering ==
    /\ \A i \in 1..Len(all) :
          IsAutoPage(all[i]) => tree[all[i]].pageIndex = calledWith[all[i]]
    /\ (JustAssigned /\ IsAutoPage(Last(stack).block)) =>
          Last(stack).nextPageIndex = calledWith[Last(stack).block] + 1
    /\ \A i, j \in PagePositions :
          (i < j /\ IsAutoPage(all[j])) =>
              tree[all[j]].pageIndex > tree[all[i]].pageIndex

\* Top-level Page blocks A (auto), B (page_number 5), C (auto) end with the
\* indices 0, 4, 5.
AutoNumberingWitness ==
    /\ pc = "done"
    /\ blocks = <<1, 2, 3>> /\ top = <<1, 2, 3>>
    /\ IsAutoPage(1) /\ HasExplicitNumber(2) /\ IsAutoPage(3)
    /\ input[2].page_number = 5
    /\ tree[1].pageIndex = 0 /\ tree[2].pageIndex = 4 /\ tree[3].pageIndex = 5
    /\ calledWith[3] = 5

\* C9: the flat collection is in pre-order: a block comes after its parent,
\* the blocks of a subtree are contiguous starting with its root, siblings
\* and top-level blocks keep their input order; a block in the list has its
\* pageIndex assigned.
PreOrderListing ==
    /\ \A i \in 1..Len(all) : TypeofNumber(tree[all[i]], "pageIndex")
    /\ pc = "done" =>
          /\ Blocks \subseteq Range(blocks)
          /\ \A b \in Blocks :
                Parent(b) # Null => Position(Parent(b)) < Position(b)
          /\ \A b \in Blocks :
                {Position(d) : d \in Descendants(b) \cup {b}} =
                    Position(b)..(Position(b) + Cardinality(Descendants(b)))
          /\ \A b \in Blocks :
                \A i, j \in 1..Len(input[b].children) :
                    i < j => Position(input[b].children[i])
                                < Position(input[b].children[j])
          /\ \A i, j \in 1..Len(top) :
                i < j => Position(top[i]) < Position(top[j])

\* A flattened forest where a child is listed before an earlier-numbered
\* top-level sibling of its parent.
PreOrderListingWitness ==
    /\ pc = "done"
    /\ Len(top) >= 2
    /\ \E b \in Blocks : Parent(b) = top[1]
    /\ \E i, j \in 1..Len(blocks) : i < j /\ blocks[i] > blocks[j]

\* The blocks for which the rendered page p holds a rectangle.
Drawn(p) ==
    {rendered.pages[p][i].block :
        i \in {k \in 1..Len(rendered.pages[p]) : IsRectangle(rendered.pages[p][k])}}

\* C10: the overlay of page N holds a rectangle for block B exactly if B is
\* in the flat collection, is not a Page, has pageIndex N and a polygon of at
\* least 4 points; a block without such a polygon has no rectangle on any
\* page and is in the flat collection with a pageIndex.
OverlayMembership ==
    rendered # NoRender =>
        /\ \A p \in DOMAIN rendered.pages :
              \A b \in Blocks :
                  b \in Drawn(p) <=>
                      /\ b \in Range(blocks)
                      /\ tree[b].block_type # "Page"
                      /\ tree[b].pageIndex = p
                      /\ Has(tree[b], "polygon")
                      /\ Len(tree[b].polygon) >= 4
        /\ \A b \in Blocks :
              (~Has(tree[b], "polygon") \/ Len(tree[b].polygon) < 4) =>
                  /\ \A p \in DOMAIN rendered.pages : b \notin Drawn(p)
                  /\ b \in Range(blocks)
                  /\ TypeofNumber(tree[b], "pageIndex")

\* A rendered page that holds a rectangle, skips a block with the two-point
\* polygon, and belongs to a Page block that has a four-point polygon.
OverlayMembershipWitness ==
    /\ rendered # NoRender
    /\ \E p \in DOMAIN rendered.pages :
          /\ Drawn(p) # {}
          /\ \E b \in Blocks :
                /\ ~IsPage(b) /\ tree[b].pageIndex = p
                /\ tree[b].polygon = Polygons[2]
          /\ \E b \in Blocks :
                /\ IsPage(b) /\ tree[b].pageIndex = p
                /\ Len(tree[b].polygon) >= 4

\* The rectangles of the overlay last drawn, over all its pages.
DrawnRectangles ==
    UNION {Range(rendered.pages[p]) : p \in DOMAIN rendered.pages}
    \ {NullElement}

\* C11: a drawn rectangle is the smallest axis-aligned box around all points
\* of its block's polygon, scaled by the scale of the drawing: every scaled
\* point lies in it, each of its four sides carries a scaled point, and its
\* width and height are not negative.
ProjectionCorrectness ==
    \A r \in DrawnRectangles :
        LET poly == tree[r.block].polygon
            pts == {<<poly[i][1] * rendered.scale, poly[i][2] * rendered.scale>> :
                      i \in 1..Len(poly)}
        IN  /\ r.width >= 0 /\ r.height >= 0
            /\ \A q \in pts :
                  /\ r.left <= q[1] /\ q[1] <= r.left + r.width
                  /\ r.top <= q[2] /\ q[2] <= r.top + r.height
            /\ \E q \in pts : q[1] = r.left
            /\ \E q \in pts : q[1] = r.left + r.width
            /\ \E q \in pts : q[2] = r.top
            /\ \E q \in pts : q[2] = r.top + r.height

\* At scale 2 the polygon [[0,0],[10,0],[10,5],[0,5]] is drawn as x 0, y 0,
\* width 20, height 10, next to the box of the five-point outline.
ProjectionCorrectnessWitness ==
    /\ rendered.scale = 2
    /\ \E r \in DrawnRectangles :
          /\ tree[r.block].polygon = Polygons[1]
          /\ r.left = 0 /\ r.top = 0 /\ r.width = 20 /\ r.height = 10
    /\ \E r \in DrawnRectangles :
          /\ tree[r.block].polygon = Polygons[3]
          /\ r.left = 2 /\ r.top = 2 /\ r.width = 10 /\ r.height = 12

\* The rectangles of the overlay last drawn that are marked as selected.
Marked == {r \in DrawnRectangles : r.zIndex = 2}

UploadDrawOrSendStep ==
    \/ HandleFileUpload \/ Rejected
    \/ BeginFlatten \/ TopCall \/ ChildCall \/ Return \/ Finish
    \/ Render
    \/ Send \/ Resolved \/ Failed

FailedUploadKeepsState ==
    [][ (~responseOk \/ pc' = "failed") =>
            UNCHANGED <<blocks, pdfFile, selectedBlock>> ]_vars

\* Every block of the forest is in the flat collection once, with a pageIndex.
Complete ==
    /\ Len(blocks) = CountBlocks(top)
    /\ \A b \in Blocks :
          /\ Cardinality({i \in 1..Len(blocks) : blocks[i] = b}) = 1
          /\ TypeofNumber(tree[b], "pageIndex")

\* C16: blocks is replaced in one step, after the loop over the top-level
\* blocks has ended; from the step that shows the viewer (pdfFile set) on,
\* blocks is the complete flat collection of the document, and neither the
\* collection nor a block's pageIndex changes any more.
CollectionExposedComplete ==
    [][ /\ blocks' # blocks =>
              pc = "flatten" /\ stack = << >> /\ topIdx > Len(top) /\ blocks' = all
        /\ pdfFile' # NoFile => Complete' /\ pc' = "done"
        /\ pdfFile # NoFile => UNCHANGED <<blocks, tree>> ]_vars

\* The viewer shows a document of several top-level blocks and has drawn it.
CollectionExposedCompleteWitness ==
    /\ pdfFile # NoFile
    /\ rendered # NoRender
    /\ Len(top) >= 2
    /\ Len(blocks) = MaxBlocks

\* The reply has no blocks field, no blocks.children, or no top-level block.
ZeroBlocks == ~HasBlockStructure \/ top = << >>

\* C17: a reply without a blocks field, without blocks.children or with an
\* empty children list is not an error: the flattening visits nothing, can
\* finish, and finishes with an empty flat collection and the viewer shown.
\* A block without a children field is a leaf: it is in the collection once
\* and nothing is visited below it.
ZeroBlocksNoError ==
    /\ ZeroBlocks =>
          /\ pc = "flatten" => all = << >> /\ stack = << >> /\ ENABLED Finish
          /\ pc = "done" => blocks = << >> /\ pdfFile = DataUrl
    /\ \A b \in Blocks :
          ~Has(input[b], "children") =>
              /\ ChildrenToVisit(tree[b]) = << >>
              /\ pc = "done" =>
                    Cardinality({i \in 1..Len(blocks) : blocks[i] = b}) = 1

\* A reply {blocks: {}} has been processed: the viewer shows no block.
ZeroBlocksNoErrorWitness ==
    /\ pc = "done"
    /\ dataKeys = {"blocks"}
    /\ blocks = << >>
    /\ pdfFile = DataUrl

\* C18: the flattening writes nothing but pageIndex: each block keeps its
\* id, block_type, polygon, page_number and children list and every property
\* it arrived with, and the flat collection refers to the blocks of the tree.
WritesOnlyPageIndex ==
    /\ DOMAIN tree = DOMAIN input
    /\ \A b \in Blocks :
          /\ tree[b].id = input[b].id
          /\ tree[b].block_type = input[b].block_type
          /\ tree[b].polygon = input[b].polygon
          /\ tree[b].page_number = input[b].page_number
          /\ tree[b].children = input[b].children
          /\ tree[b].keys \ {"pageIndex"} = input[b].keys \ {"pageIndex"}
          /\ input[b].keys \subseteq tree[b].keys
    /\ Range(all) \subseteq DOMAIN tree
    /\ Range(blocks) \subseteq DOMAIN tree

\* A flattened forest in which a block got a pageIndex it did not arrive
\* with, below a page with an explicit number.
WritesOnlyPageIndexWitness ==
    /\ pc = "done"
    /\ \E b \in Blocks :
          /\ ~Has(input[b], "pageIndex")
          /\ Parent(b) # Null
          /\ HasExplicitNumber(Parent(b))
          /\ tree[b].pageIndex = input[Parent(b)].page_number - 1
          /\ tree[b].pageIndex > 0

\* All messages of a conversation belong to block b, whose system message
\* comes first.
ConversationOf(conv, b) ==
    /\ conv # << >>
    /\ conv[1].role = "system"
    /\ \A i \in 1..Len(conv) : conv[i].about = b

\* C19: the conversation stored under a block's id begins with that block's
\* system message and holds only messages sent while that block was
\* selected, and so does the conversation the pane shows for its block.
ConversationsIsolated ==
    /\ \A b \in DOMAIN blockConversations :
          ConversationOf(blockConversations[b], b)
    /\ paneBlock # Null => ConversationOf(messages, paneBlock)

\* A message is text without white space at either end.
Trimmed(text) == text # NoText /\ Head(text) # " " /\ Last(text) # " "

\* The conversation kept for the block a call was made for: what a pane
\* shows when it is opened on that block.
KeptFor(c, kept) == kept[tree[c.about].id]

\* The calls that a step completes.
Completed == {c \in BagToSet(calls) : CopiesIn(c, calls') < CopiesIn(c, calls)}

\* The history without its i-th message.
Without(msgs, i) == SubSeq(msgs, 1, i - 1) \o SubSeq(msgs, i + 1, Len(msgs))

\* C20: when a call to the AI fails, the history is again the history before
\* the send, the input box holds the trimmed text of the message and
\* isLoading is false; the same holds at once when the API key is missing.
\* When the call succeeds the history is the history before the send, the
\* user message and the assistant's reply, and isLoading is false.  For a
\* call whose pane has been closed since, the history is the conversation
\* kept for the block: a failure takes a user message out of it, a success
\* puts the assistant's reply behind a user message of it.
SendRollsBack ==
    [][ /\ Failed =>
              \E c \in Completed :
                  IF c.live
                  THEN /\ Last(c.request).role = "user"
                       /\ messages' = Front(c.request)
                       /\ newMessage' = Last(c.request).content
                       /\ Trimmed(newMessage')
                       /\ ~isLoading'
                  ELSE LET before == KeptFor(c, blockConversations)
                           after == KeptFor(c, blockConversations')
                       IN  \E i \in 1..Len(before) :
                               /\ before[i].role = "user"
                               /\ after = Without(before, i)
        /\ Resolved =>
              \E c \in Completed :
                  IF c.live
                  THEN /\ Last(c.request).role = "user"
                       /\ Front(messages') = c.request
                       /\ Last(messages').role = "assistant"
                       /\ ~isLoading'
                  ELSE LET before == KeptFor(c, blockConversations)
                           after == KeptFor(c, blockConversations')
                       IN  \E i \in 1..Len(before) :
                               /\ before[i].role = "user"
                               /\ Len(after) = Len(before) + 1
                               /\ after[i + 1].role = "assistant"
                               /\ before = Without(after, i + 1)
        /\ (Send /\ ~apiKey) =>
              /\ messages' = messages
              /\ newMessage' \in {Trim(newMessage)} \cup PresetTexts
              /\ Trimmed(newMessage')
              /\ ~isLoading' ]_vars

\* No two neighbours of a history have the same role.
Alternates(msgs) ==
    \A i \in 1..(Len(msgs) - 1) : msgs[i].role # msgs[i + 1].role

\* The calls in flight that the pane on screen has made.
CallsOfPane == [c \in {d \in BagToSet(calls) : d.live} |-> calls[c]]

\* C21: a chat pane has at most one call to the AI in flight, exactly while
\* isLoading is true, and in the history it shows user and assistant
\* messages alternate.
OneRequestInFlight ==
    /\ BagCardinality(CallsOfPane) <= 1
    /\ isLoading <=> BagToSet(CallsOfPane) # {}
    /\ paneBlock # Null => Alternates(messages)

\* The uploads whose reply is awaited.
UploadsInFlight == (IF pc = "fetch" THEN 1 ELSE 0) + waiting

\* C22: loading is true from the choice of a file until its reply has been
\* flattened and stored or its request has failed, and false otherwise; so
\* no second upload starts while one is in progress.
LoadingCoversUpload ==
    /\ loading <=> (UploadsInFlight > 0 \/ pc = "flatten")
    /\ UploadsInFlight <= 1

====
